---- MODULE Spec2Model ----
(***************************************************************************)
(* Response normalisation and field extraction of src/app.py:              *)
(*   parse_response_data, parse_columns_data,                              *)
(*   extract_chat_completion_content, get_field_value,                     *)
(* and the session state of the emergency and chat tabs.                   *)
(*                                                                         *)
(* Spec applies the four functions to bounded inputs, SpecDescent runs     *)
(* get_field_value frame by frame on rows that may contain themselves, and *)
(* SpecSession runs the script once per user event.                        *)
(*                                                                         *)
(* Python values are records tagged by k.  A Python string is the sequence *)
(* of its characters, so that lower(), upper(), replace() and str() are    *)
(* computed and not assumed.  A dict is its keys and values in insertion   *)
(* order.  An object is its instance attributes, with bag = TRUE when it   *)
(* exposes __dict__.  A call that ends in an uncaught exception yields a   *)
(* Raise value, which every caller propagates.                             *)
(***************************************************************************)
EXTENDS Integers, Sequences, FiniteSets, TLC

VARIABLES pc, input, data, field_name, default, result

\* the heap of rows and the call stack of the step-by-step get_field_value
VARIABLES heap, stack

\* st.session_state and the module-level client of one browser session, with a
\* record of what the last script run did
VARIABLES jamai_client, selected_emergency, form_submitted, emergency_location,
          upload_done, chat_history, last_run, uploads

callVars == <<pc, input, data, field_name, default, result>>
descentVars == <<heap, stack>>
sessionVars == <<jamai_client, selected_emergency, form_submitted, emergency_location,
                 upload_done, chat_history, last_run, uploads>>

vars == <<callVars, descentVars, sessionVars>>

----------------------------------------------------------------------------
(* Python values *)

None == [k |-> "none"]
PyStr(s) == [k |-> "str", s |-> s]
PyInt(n) == [k |-> "int", n |-> n]
PyList(xs) == [k |-> "list", items |-> xs]
PyDict(ks, vs) == [k |-> "dict", keys |-> ks, vals |-> vs]
PyObj(ks, vs, bag) == [k |-> "obj", keys |-> ks, vals |-> vs, bag |-> bag]
Raise(e) == [k |-> "raise", exc |-> e]

EmptyDict == PyDict(<<>>, <<>>)

IsNone(v) == v.k = "none"
IsStr(v) == v.k = "str"
IsList(v) == v.k = "list"
IsDict(v) == v.k = "dict"
IsObj(v) == v.k = "obj"
IsRaise(v) == v.k = "raise"

\* bool(v)
Truthy(v) ==
    CASE v.k = "none" -> FALSE
      [] v.k = "str" -> v.s # <<>>
      [] v.k = "int" -> v.n # 0
      [] v.k = "list" -> v.items # <<>>
      [] v.k = "dict" -> v.keys # <<>>
      [] OTHER -> TRUE

\* key in d
HasKey(d, key) == \E i \in 1..Len(d.keys) : d.keys[i] = key
\* d[key]
GetKey(d, key) == d.vals[CHOOSE i \in 1..Len(d.keys) : d.keys[i] = key]
\* d.get(key)
DictGet(d, key) == IF HasKey(d, key) THEN GetKey(d, key) ELSE None
\* hasattr(v, name)
HasAttr(v, name) == IsObj(v) /\ HasKey(v, name)
\* hasattr(v, "__dict__")
HasBag(v) == IsObj(v) /\ v.bag
\* a or b
PyOr(a, b) == IF Truthy(a) THEN a ELSE b
\* the elements of a sequence
Range(xs) == {xs[i] : i \in 1..Len(xs)}

----------------------------------------------------------------------------
(* The names the code looks for *)

K_row == <<"r", "o", "w">>
K_rows == <<"r", "o", "w", "s">>
K_values == <<"v", "a", "l", "u", "e", "s">>
K_data == <<"d", "a", "t", "a">>
K_columns == <<"c", "o", "l", "u", "m", "n", "s">>
K_text == <<"t", "e", "x", "t">>
K_value == <<"v", "a", "l", "u", "e">>
K_choices == <<"c", "h", "o", "i", "c", "e", "s">>
K_message == <<"m", "e", "s", "s", "a", "g", "e">>
K_content == <<"c", "o", "n", "t", "e", "n", "t">>

----------------------------------------------------------------------------
(* str methods *)

UpperLetters == <<"A", "B", "C", "D", "E", "F", "G", "H", "I", "J", "K", "L", "M",
                  "N", "O", "P", "Q", "R", "S", "T", "U", "V", "W", "X", "Y", "Z">>
LowerLetters == <<"a", "b", "c", "d", "e", "f", "g", "h", "i", "j", "k", "l", "m",
                  "n", "o", "p", "q", "r", "s", "t", "u", "v", "w", "x", "y", "z">>

\* the letters' case mapping, as a table
ToLower == [c \in {UpperLetters[i] : i \in 1..26} |->
               LowerLetters[CHOOSE i \in 1..26 : UpperLetters[i] = c]]
ToUpper == [c \in {LowerLetters[i] : i \in 1..26} |->
               UpperLetters[CHOOSE i \in 1..26 : LowerLetters[i] = c]]

LowerChar(c) == IF c \in DOMAIN ToLower THEN ToLower[c] ELSE c
UpperChar(c) == IF c \in DOMAIN ToUpper THEN ToUpper[c] ELSE c

\* s.lower(), s.upper(), s.replace(a, b) for one-character a and b
lower(s) == [i \in 1..Len(s) |-> LowerChar(s[i])]
upper(s) == [i \in 1..Len(s) |-> UpperChar(s[i])]
replace(s, a, b) == [i \in 1..Len(s) |-> IF s[i] = a THEN b ELSE s[i]]

----------------------------------------------------------------------------
(* str(v) and repr(v) *)

Digits == <<"0", "1", "2", "3", "4", "5", "6", "7", "8", "9">>

RECURSIVE IntChars(_)
IntChars(n) ==
    IF n < 0 THEN <<"-">> \o IntChars(0 - n)
    ELSE IF n < 10 THEN <<Digits[n + 1]>>
    ELSE IntChars(n \div 10) \o <<Digits[(n % 10) + 1]>>

\* an object without __str__ renders as a non-empty angle-bracketed tag
ObjectChars == <<"<", "o", "b", "j", "e", "c", "t", ">">>

RECURSIVE repr(_)
RECURSIVE JoinRepr(_, _)
RECURSIVE JoinItems(_, _, _)

JoinRepr(xs, i) ==
    IF i > Len(xs) THEN <<>>
    ELSE (IF i > 1 THEN <<",", " ">> ELSE <<>>) \o repr(xs[i]) \o JoinRepr(xs, i + 1)

JoinItems(ks, vs, i) ==
    IF i > Len(ks) THEN <<>>
    ELSE (IF i > 1 THEN <<",", " ">> ELSE <<>>)
         \o <<"'">> \o ks[i] \o <<"'", ":", " ">> \o repr(vs[i])
         \o JoinItems(ks, vs, i + 1)

repr(v) ==
    CASE v.k = "none" -> <<"N", "o", "n", "e">>
      [] v.k = "str" -> <<"'">> \o v.s \o <<"'">>
      [] v.k = "int" -> IntChars(v.n)
      [] v.k = "list" -> <<"[">> \o JoinRepr(v.items, 1) \o <<"]">>
      [] v.k = "dict" -> <<"{">> \o JoinItems(v.keys, v.vals, 1) \o <<"}">>
      [] OTHER -> ObjectChars

\* str(v): a str is itself, everything else is its repr
str(v) == IF IsStr(v) THEN v ELSE PyStr(repr(v))

----------------------------------------------------------------------------
(* parse_columns_data, app.py 213-229 *)

\* one column: the body of the for loop
column_text(col_value) ==
    IF IsDict(col_value)
    THEN PyOr(DictGet(col_value, K_text),
              PyOr(DictGet(col_value, K_value), str(col_value)))
    ELSE IF HasAttr(col_value, K_text) THEN GetKey(col_value, K_text)
    ELSE IF HasAttr(col_value, K_value) THEN GetKey(col_value, K_value)
    ELSE str(col_value)

parse_columns_data(columns) ==
    IF IsDict(columns)
    THEN PyDict(columns.keys,
                [i \in 1..Len(columns.vals) |-> column_text(columns.vals[i])])
    ELSE EmptyDict

----------------------------------------------------------------------------
(* extract_chat_completion_content, app.py 231-258 *)

Fallthrough == [k |-> "pass"]

\* value.choices[0].message.content inside try/except (AttributeError, IndexError)
\* (lines 234-238); Fallthrough when the if is false or the except clause passes
attr_chat_content(value) ==
    IF ~(HasAttr(value, K_choices) /\ Truthy(GetKey(value, K_choices)))
    THEN Fallthrough
    ELSE LET choices == GetKey(value, K_choices) IN
         CASE IsList(choices) ->
                LET first == choices.items[1] IN
                IF ~HasAttr(first, K_message) THEN Fallthrough
                ELSE LET message == GetKey(first, K_message) IN
                     IF ~HasAttr(message, K_content) THEN Fallthrough
                     ELSE GetKey(message, K_content)
           \* "abc"[0] is a str, which has no attribute message
           [] IsStr(choices) -> Fallthrough
           \* {...}[0] with str keys only: KeyError is not in the except clause
           [] IsDict(choices) -> Raise("KeyError")
           \* int or object: not subscriptable, TypeError is not caught
           [] OTHER -> Raise("TypeError")

\* the dict branch, lines 241-251
dict_chat_content(value) ==
    IF ~(IsDict(value) /\ HasKey(value, K_choices)) THEN Fallthrough
    ELSE LET choices == GetKey(value, K_choices) IN
         IF ~(IsList(choices) /\ Truthy(choices)) THEN Fallthrough
         ELSE LET first_choice == choices.items[1] IN
              IF IsDict(first_choice) /\ HasKey(first_choice, K_message)
              THEN LET message == GetKey(first_choice, K_message) IN
                   \* .get exists on dicts only; AttributeError is caught
                   IF IsDict(message) THEN DictGet(message, K_content)
                   ELSE Fallthrough
              ELSE IF HasAttr(first_choice, K_message)
              THEN LET message == GetKey(first_choice, K_message) IN
                   IF HasAttr(message, K_content) THEN GetKey(message, K_content)
                   ELSE Fallthrough
              ELSE Fallthrough

\* lines 253-258
plain_content(value) ==
    IF IsStr(value) THEN (IF Truthy(value) THEN value ELSE None)
    ELSE IF value # None THEN str(value) ELSE None

extract_chat_completion_content(value) ==
    LET a == attr_chat_content(value) IN
    IF a # Fallthrough THEN a
    ELSE LET d == dict_chat_content(value) IN
         IF d # Fallthrough THEN d
         ELSE plain_content(value)

----------------------------------------------------------------------------
(* parse_response_data, app.py 171-211 *)

RECURSIVE parse_response_data(_)

\* "rows" tried before "row"
parse_dict_response_rows_first(response) ==
    IF /\ HasKey(response, K_rows)
       /\ IsList(GetKey(response, K_rows))
       /\ Truthy(GetKey(response, K_rows))
    THEN parse_response_data(GetKey(response, K_rows).items[1])
    ELSE IF HasKey(response, K_row)
    THEN parse_response_data(GetKey(response, K_row))
    ELSE IF HasKey(response, K_values) /\ IsDict(GetKey(response, K_values))
    THEN GetKey(response, K_values)
    ELSE IF HasKey(response, K_data) /\ IsDict(GetKey(response, K_data))
    THEN GetKey(response, K_data)
    ELSE IF HasKey(response, K_columns) /\ IsDict(GetKey(response, K_columns))
    THEN GetKey(response, K_columns)
    ELSE response

\* response["row"] returned without the recursive call
parse_dict_response_row_as_is(response) ==
    IF HasKey(response, K_row)
    THEN GetKey(response, K_row)
    ELSE IF /\ HasKey(response, K_rows)
            /\ IsList(GetKey(response, K_rows))
            /\ Truthy(GetKey(response, K_rows))
    THEN parse_response_data(GetKey(response, K_rows).items[1])
    ELSE IF HasKey(response, K_values) /\ IsDict(GetKey(response, K_values))
    THEN GetKey(response, K_values)
    ELSE IF HasKey(response, K_data) /\ IsDict(GetKey(response, K_data))
    THEN GetKey(response, K_data)
    ELSE IF HasKey(response, K_columns) /\ IsDict(GetKey(response, K_columns))
    THEN GetKey(response, K_columns)
    ELSE response

\* lines 181-193
parse_dict_response(response) ==
    IF HasKey(response, K_row)
    THEN parse_response_data(GetKey(response, K_row))
    ELSE IF /\ HasKey(response, K_rows)
            /\ IsList(GetKey(response, K_rows))
            /\ Truthy(GetKey(response, K_rows))
    THEN parse_response_data(GetKey(response, K_rows).items[1])
    ELSE IF HasKey(response, K_values) /\ IsDict(GetKey(response, K_values))
    THEN GetKey(response, K_values)
    ELSE IF HasKey(response, K_data) /\ IsDict(GetKey(response, K_data))
    THEN GetKey(response, K_data)
    ELSE IF HasKey(response, K_columns) /\ IsDict(GetKey(response, K_columns))
    THEN GetKey(response, K_columns)
    ELSE response

\* the final "return {}" replaced by "return response"
parse_object_response_no_empty(response) ==
    IF /\ HasAttr(response, K_rows)
       /\ IsList(GetKey(response, K_rows))
       /\ Truthy(GetKey(response, K_rows))
    THEN LET first_row == GetKey(response, K_rows).items[1] IN
         IF HasAttr(first_row, K_columns)
         THEN parse_columns_data(GetKey(first_row, K_columns))
         ELSE parse_response_data(first_row)
    ELSE IF HasAttr(response, K_columns)
    THEN parse_columns_data(GetKey(response, K_columns))
    ELSE IF HasBag(response)
    THEN parse_response_data(PyDict(response.keys, response.vals))
    ELSE response

\* the columns attribute tried before the rows attribute
parse_object_response_columns_first(response) ==
    IF HasAttr(response, K_columns)
    THEN parse_columns_data(GetKey(response, K_columns))
    ELSE IF /\ HasAttr(response, K_rows)
            /\ IsList(GetKey(response, K_rows))
            /\ Truthy(GetKey(response, K_rows))
    THEN LET first_row == GetKey(response, K_rows).items[1] IN
         IF HasAttr(first_row, K_columns)
         THEN parse_columns_data(GetKey(first_row, K_columns))
         ELSE parse_response_data(first_row)
    ELSE IF HasBag(response)
    THEN parse_response_data(PyDict(response.keys, response.vals))
    ELSE EmptyDict

\* lines 195-211
parse_object_response(response) ==
    IF /\ HasAttr(response, K_rows)
       /\ IsList(GetKey(response, K_rows))
       /\ Truthy(GetKey(response, K_rows))
    THEN LET first_row == GetKey(response, K_rows).items[1] IN
         IF HasAttr(first_row, K_columns)
         THEN parse_columns_data(GetKey(first_row, K_columns))
         ELSE parse_response_data(first_row)
    ELSE IF HasAttr(response, K_columns)
    THEN parse_columns_data(GetKey(response, K_columns))
    ELSE IF HasBag(response)
    THEN parse_response_data(PyDict(response.keys, response.vals))
    ELSE EmptyDict

\* lines 176-178
first_of_list(response) ==
    IF IsList(response) /\ Truthy(response) THEN response.items[1] ELSE response

parse_response_data(response) ==
    IF response = None THEN EmptyDict
    ELSE LET r == first_of_list(response) IN
         IF IsDict(r) THEN parse_dict_response(r)
         ELSE parse_object_response(r)

----------------------------------------------------------------------------
(* get_field_value, app.py 260-291 *)

RECURSIVE get_field_value(_, _, _)
RECURSIVE recursive_search(_, _, _, _)

\* "extracted if extracted else default" of lines 269 and 282
extracted_or(extracted, dflt) ==
    IF IsRaise(extracted) THEN extracted
    ELSE IF Truthy(extracted) THEN extracted
    ELSE dflt

\* lines 272-277
alternative_names(name) ==
    <<lower(name), upper(name), replace(name, "_", " "), replace(name, " ", "_")>>

\* the key compared as it is, not lowercased
key_matches_case_sensitive(key, name) ==
    \E i \in 1..4 : key = alternative_names(name)[i]

\* line 280: key.lower() in [name.lower() for name in alternative_names]
key_matches(key, name) ==
    \E i \in 1..4 : lower(key) = lower(alternative_names(name)[i])

\* an empty direct value falls through to the nested search
direct_lookup_falls_through(row, name, dflt) ==
    LET extracted == extract_chat_completion_content(GetKey(row, name)) IN
    IF IsRaise(extracted) \/ Truthy(extracted) THEN extracted
    ELSE recursive_search(row, name, dflt, 1)

\* lines 266-269
direct_lookup(row, name, dflt) ==
    extracted_or(extract_chat_completion_content(GetKey(row, name)), dflt)

\* lines 279-282: the first key, in insertion order, that matches
fuzzy_lookup(row, name, dflt) ==
    LET i == CHOOSE j \in 1..Len(row.keys) :
                 /\ key_matches(row.keys[j], name)
                 /\ \A h \in 1..(j - 1) : ~key_matches(row.keys[h], name)
    IN extracted_or(extract_chat_completion_content(row.vals[i]), dflt)

\* the nested call given default instead of None
recursive_search_passes_default(row, name, dflt, i) ==
    IF i > Len(row.keys) THEN dflt
    ELSE IF IsDict(row.vals[i])
    THEN LET found == get_field_value(row.vals[i], name, dflt) IN
         IF found # None THEN found
         ELSE recursive_search(row, name, dflt, i + 1)
    ELSE recursive_search(row, name, dflt, i + 1)

\* lines 285-291, from entry i on
recursive_search(row, name, dflt, i) ==
    IF i > Len(row.keys) THEN dflt
    ELSE IF IsDict(row.vals[i])
    THEN LET found == get_field_value(row.vals[i], name, None) IN
         IF found # None THEN found
         ELSE recursive_search(row, name, dflt, i + 1)
    ELSE recursive_search(row, name, dflt, i + 1)

get_field_value(row, name, dflt) ==
    IF ~IsDict(row) THEN dflt
    ELSE IF HasKey(row, name) THEN direct_lookup(row, name, dflt)
    ELSE IF \E j \in 1..Len(row.keys) : key_matches(row.keys[j], name)
    THEN fuzzy_lookup(row, name, dflt)
    ELSE recursive_search(row, name, dflt, 1)

----------------------------------------------------------------------------
(* Inputs: the shapes a table response, a row, a column value can take *)

\* most entries in a generated row
MaxEntries == 2

S_x == <<"x">>
S_hi == <<"h", "i">>
S_d == <<"d">>
S_evacuate == <<"E", "v", "a", "c", "u", "a", "t", "e", " ", "n", "o", "w">>

F_output == <<"o", "u", "t", "p", "u", "t">>
F_outer == <<"o", "u", "t", "e", "r">>
F_inner == <<"i", "n", "n", "e", "r">>
F_summary == <<"s", "u", "m", "m", "a", "r", "y">>
F_Summary == <<"S", "u", "m", "m", "a", "r", "y">>
F_input_summary == <<"i", "n", "p", "u", "t", "_", "s", "u", "m", "m", "a", "r", "y">>
F_input_summary_sp == <<"i", "n", "p", "u", "t", " ", "s", "u", "m", "m", "a", "r", "y">>
F_Input_Summary_sp == <<"I", "n", "p", "u", "t", " ", "S", "u", "m", "m", "a", "r", "y">>

FieldNames == {F_output, F_summary, F_input_summary, F_Input_Summary_sp}
Defaults == {None, PyStr(<<>>), PyStr(S_d)}

Atoms == {None, PyStr(<<>>), PyStr(S_x), PyInt(0), PyInt(5)}

Dict1(key, v) == PyDict(<<key>>, <<v>>)
Obj1(key, v) == PyObj(<<key>>, <<v>>, TRUE)
BareObj == PyObj(<<>>, <<>>, TRUE)
\* an object without __dict__ and without any attribute the code probes
SlotObj == PyObj(<<>>, <<>>, FALSE)

\* chat completions, well formed and malformed, as dicts and as objects
Contents == {None, PyStr(<<>>), PyStr(S_hi), PyInt(5)}
Messages ==
    {Dict1(K_content, c) : c \in Contents} \cup {Obj1(K_content, c) : c \in Contents}
    \cup {EmptyDict, BareObj, None, PyStr(S_x)}
FirstChoices ==
    {Dict1(K_message, m) : m \in Messages} \cup {Obj1(K_message, m) : m \in Messages}
    \cup {EmptyDict, BareObj, None, PyStr(S_x)}
ChoicesValues ==
    {PyList(<<f>>) : f \in FirstChoices}
    \cup {PyList(<<>>), None, PyInt(0), PyInt(5), PyStr(S_x), BareObj,
          EmptyDict, Dict1(K_message, PyStr(S_hi))}
ChatValues ==
    {Dict1(K_choices, c) : c \in ChoicesValues} \cup {Obj1(K_choices, c) : c \in ChoicesValues}

\* column wrappers
ColumnAtoms == {None, PyStr(<<>>), PyStr(S_x), PyInt(5)}
ColumnValues ==
    Atoms
    \cup {Dict1(K_text, a) : a \in ColumnAtoms} \cup {Dict1(K_value, a) : a \in ColumnAtoms}
    \cup {PyDict(<<K_text, K_value>>, <<a, b>>) : a, b \in ColumnAtoms}
    \cup {Obj1(K_text, a) : a \in ColumnAtoms} \cup {Obj1(K_value, a) : a \in ColumnAtoms}
    \cup {PyObj(<<K_text, K_value>>, <<a, b>>, TRUE) : a, b \in ColumnAtoms}
    \cup {EmptyDict, BareObj, SlotObj, PyList(<<>>), Dict1(F_inner, PyStr(S_x))}
ColumnsDicts ==
    {Dict1(F_summary, v) : v \in ColumnValues}
    \cup {PyDict(<<F_summary, F_output>>, <<v, w>>) :
            v, w \in {PyStr(S_x), Dict1(K_text, PyStr(S_evacuate)),
                      Dict1(K_text, PyInt(5)), Obj1(K_text, None), Obj1(K_value, PyStr(S_hi))}}

\* rows: up to MaxEntries entries, in every insertion order
RowKeys == {F_output, F_Summary, F_input_summary_sp, F_outer}
GoodChat == Dict1(K_choices, PyList(<<Dict1(K_message, Dict1(K_content, PyStr(S_hi)))>>))
RowValues ==
    {PyStr(S_x), PyStr(<<>>),
     Dict1(F_output, PyStr(S_hi)), Dict1(F_output, PyStr(<<>>)),
     PyDict(<<F_summary, F_inner>>, <<None, Dict1(F_summary, PyStr(S_hi))>>),
     Dict1(F_inner, Dict1(F_output, GoodChat))}
InjectiveSeqs(S, n) ==
    {f \in [1..n -> S] : \A i, j \in 1..n : i # j => f[i] # f[j]}
RowsOfSize(n) ==
    {PyDict(ks, vs) : ks \in InjectiveSeqs(RowKeys, n), vs \in [1..n -> RowValues]}
Rows == UNION {RowsOfSize(n) : n \in 0..MaxEntries}

\* rows for the name variants, and rows whose values are not plain
VariantRows ==
    {Dict1(key, v) :
        key \in {F_input_summary, F_input_summary_sp, F_Input_Summary_sp, upper(F_input_summary)},
        v \in {PyStr(S_x), PyStr(<<>>), GoodChat}}
    \cup {PyDict(<<F_Summary, upper(F_summary)>>, <<v, w>>) :
            v, w \in {PyStr(S_x), PyStr(<<>>)}}
OddRows ==
    {Dict1(F_output, v) : v \in ChatValues \cup Atoms}
    \cup {Dict1(F_outer, Dict1(F_output, v)) : v \in ChatValues \cup Atoms}

\* dict responses: every combination of the keys the code looks for
LeafRow(t) == Dict1(F_summary, PyStr(t))
RowChoices == {LeafRow(<<"r">>), PyStr(S_x), Dict1(K_values, LeafRow(<<"r", "v">>)),
               PyDict(<<K_data, F_output>>, <<LeafRow(<<"r", "d">>), PyStr(S_x)>>)}
RowsChoices == {PyList(<<>>), PyList(<<LeafRow(<<"s">>)>>), PyStr(S_x),
                PyList(<<Dict1(K_columns, LeafRow(<<"s", "c">>)), LeafRow(<<"s", "2">>)>>)}
ValuesChoices == {LeafRow(<<"v">>), PyStr(S_x)}
DataChoices == {LeafRow(<<"d">>), PyList(<<>>)}
ColumnsChoices == {Dict1(F_summary, Dict1(K_text, PyStr(S_x))), None}

Entry(key, v) == [key |-> key, v |-> v]
Absent == [key |-> <<>>]
EntryChoices(key, S) == {Absent} \cup {Entry(key, v) : v \in S}
\* the dict holding the entries of es that are present, in the order of es
RECURSIVE DictOf(_, _)
DictOf(es, i) ==
    IF i > Len(es) THEN EmptyDict
    ELSE LET rest == DictOf(es, i + 1) IN
         IF es[i] = Absent THEN rest
         ELSE PyDict(<<es[i].key>> \o rest.keys, <<es[i].v>> \o rest.vals)
KeyedDicts ==
    {DictOf(<<a, b, c, d, e>>, 1) :
        a \in EntryChoices(K_columns, ColumnsChoices),
        b \in EntryChoices(K_data, DataChoices),
        c \in EntryChoices(K_values, ValuesChoices),
        d \in EntryChoices(K_rows, RowsChoices),
        e \in EntryChoices(K_row, RowChoices)}
WrappedDicts ==
    {Dict1(K_row, m) : m \in KeyedDicts}
    \cup {PyDict(<<K_rows, K_row>>, <<w, m>>) :
            w \in RowsChoices, m \in {d \in KeyedDicts : Len(d.keys) <= 1}}

\* the table response with column wrappers
ColumnRows ==
    {Dict1(K_rows, PyList(<<Dict1(K_columns, Dict1(c, Dict1(K_text, PyStr(t))))>>)) :
        c \in {F_summary, F_output}, t \in {S_x, S_evacuate}}
    \cup {Dict1(K_rows, PyList(<<Dict1(K_columns,
            PyDict(<<F_summary, F_output>>,
                   <<Dict1(K_text, PyStr(S_evacuate)), Dict1(K_text, PyStr(S_hi))>>))>>))}

\* object responses
ObjectResponses ==
    {Obj1(K_rows, PyList(<<f>>)) :
        f \in {Obj1(K_columns, c) : c \in ColumnsDicts}
              \cup {LeafRow(S_x), None, BareObj, SlotObj, Obj1(F_summary, PyStr(S_x)),
                    Obj1(K_row, LeafRow(S_hi))}}
    \cup {Obj1(K_columns, c) : c \in ColumnsDicts \cup {None, PyStr(S_x)}}
    \cup {PyObj(<<K_rows, K_columns>>, <<r, Dict1(F_summary, Dict1(K_text, PyStr(S_x)))>>, TRUE) :
            r \in {PyList(<<>>), None, PyStr(S_x), PyList(<<LeafRow(S_x)>>),
                  PyList(<<LeafRow(S_hi)>>)}}
    \cup {Obj1(K_rows, r) : r \in {PyList(<<>>), None, PyStr(S_x)}}
    \cup {Obj1(K_row, LeafRow(S_x)), Obj1(F_summary, PyStr(S_x)), BareObj, SlotObj,
          PyObj(<<F_summary>>, <<PyStr(S_x)>>, FALSE),
          PyObj(<<K_columns>>, <<Dict1(F_summary, PyStr(S_x))>>, FALSE)}

\* list responses
ListResponses ==
    {PyList(<<>>)}
    \cup {PyList(<<r>>) :
            r \in Atoms \cup {EmptyDict, LeafRow(S_x), Dict1(K_row, LeafRow(S_x)),
                            PyList(<<>>), PyList(<<LeafRow(S_x)>>),
                            Obj1(K_columns, Dict1(F_summary, Dict1(K_text, PyStr(S_x)))),
                            BareObj, SlotObj}}
    \cup {PyList(<<LeafRow(S_x), LeafRow(S_hi)>>), PyList(<<None, LeafRow(S_hi)>>)}

Inputs ==
    Atoms \cup ChatValues \cup ColumnValues \cup ColumnsDicts \cup Rows \cup VariantRows
    \cup OddRows \cup KeyedDicts \cup WrappedDicts \cup ColumnRows \cup ObjectResponses
    \cup ListResponses

----------------------------------------------------------------------------
(* The calls.  tab_analysis and tab_chat (app.py 625-633, 697-701) parse the *)
(* table response and then read a field of the parsed row; each function is *)
(* also called on its own.                                                  *)

\* no step-by-step call and no session in Spec
NoDescent == heap = <<>> /\ stack = <<>>
NoSession ==
    /\ jamai_client = FALSE
    /\ selected_emergency = None
    /\ form_submitted = FALSE
    /\ emergency_location = None
    /\ upload_done = FALSE
    /\ chat_history = <<>>
    /\ last_run = <<>>
    /\ uploads = 0

Init ==
    /\ pc = "start"
    /\ input \in Inputs
    /\ data = None
    /\ field_name = <<>>
    /\ default = None
    /\ result = None
    /\ NoDescent
    /\ NoSession

\* data = parse_response_data(response)
ParseResponse ==
    /\ pc = "start"
    /\ data' = parse_response_data(input)
    /\ pc' = "parsed"
    /\ UNCHANGED <<input, field_name, default, result>>
    /\ UNCHANGED <<descentVars, sessionVars>>

\* get_field_value(data, name, dflt) on the parsed row
ReadField ==
    /\ pc = "parsed"
    /\ \E name \in FieldNames, dflt \in Defaults :
        /\ field_name' = name
        /\ default' = dflt
        /\ result' = get_field_value(data, name, dflt)
    /\ pc' = "read"
    /\ UNCHANGED <<input, data>>
    /\ UNCHANGED <<descentVars, sessionVars>>

\* get_field_value(input, name, dflt)
GetField ==
    /\ pc = "start"
    /\ \E name \in FieldNames, dflt \in Defaults :
        /\ field_name' = name
        /\ default' = dflt
        /\ result' = get_field_value(input, name, dflt)
    /\ pc' = "field"
    /\ UNCHANGED <<input, data>>
    /\ UNCHANGED <<descentVars, sessionVars>>

\* parse_columns_data(input)
ParseColumns ==
    /\ pc = "start"
    /\ result' = parse_columns_data(input)
    /\ pc' = "columns"
    /\ UNCHANGED <<input, data, field_name, default>>
    /\ UNCHANGED <<descentVars, sessionVars>>

\* extract_chat_completion_content(input)
ExtractContent ==
    /\ pc = "start"
    /\ result' = extract_chat_completion_content(input)
    /\ pc' = "content"
    /\ UNCHANGED <<input, data, field_name, default>>
    /\ UNCHANGED <<descentVars, sessionVars>>

Next == ParseResponse \/ ReadField \/ GetField \/ ParseColumns \/ ExtractContent

Spec == Init /\ [][Next]_vars

TypeOK == pc \in {"start", "parsed", "read", "field", "columns", "content"}

----------------------------------------------------------------------------
(* get_field_value frame by frame, app.py 260-291.  The rows live in a heap, *)
(* so that a row can hold a reference to itself or to a row that holds it.   *)
(* Each frame is a call of get_field_value in its loop of lines 285-289; the *)
(* interpreter raises RecursionError when the frames exceed its limit.       *)

\* frames the interpreter allows (sys.getrecursionlimit(), scaled down)
RecursionLimit == 3

Ref(n) == [k |-> "ref", to |-> n]
IsRef(v) == v.k = "ref"

Nodes == {1, 2}
Root == CHOOSE n \in Nodes : \A m \in Nodes : n <= m

\* entries of a heap row: nested rows under keys that are no variant of "output",
\* plain values under "output", "OUTPUT" and "outer"
HeapEntries ==
    {<<key, Ref(n)>> : key \in {F_outer, F_inner}, n \in Nodes}
    \cup {<<F_outer, PyStr(S_x)>>, <<F_output, PyStr(S_hi)>>, <<F_output, PyStr(<<>>)>>,
          <<upper(F_output), PyStr(S_hi)>>}
HeapRows ==
    {PyDict(<<e[1]>>, <<e[2]>>) : e \in HeapEntries}
    \cup {PyDict(<<p[1][1], p[2][1]>>, <<p[1][2], p[2][2]>>) :
            p \in {q \in HeapEntries \X HeapEntries : q[1][1] # q[2][1]}}
Heaps == [Nodes -> HeapRows]

\* lines 266-282 on the row at node n: the direct or fuzzy hit, if there is one
HasLookupHit(h, n, name) ==
    \/ HasKey(h[n], name)
    \/ \E j \in 1..Len(h[n].keys) : key_matches(h[n].keys[j], name)
LookupHit(h, n, name, dflt) ==
    IF HasKey(h[n], name) THEN direct_lookup(h[n], name, dflt)
    ELSE fuzzy_lookup(h[n], name, dflt)

Frame(n, i) == [node |-> n, i |-> i]
Top == stack[Len(stack)]
\* the stack with the loop of its top frame moved to the next entry
Advance(st) == [st EXCEPT ![Len(st)].i = st[Len(st)].i + 1]
Pop(st) == SubSeq(st, 1, Len(st) - 1)

\* a depth guard: at the frame limit the nested row counts as searched in vain
nested_call_guarded(h, st, name) ==
    LET m == h[st[Len(st)].node].vals[st[Len(st)].i].to IN
    IF Len(st) >= RecursionLimit
    THEN [pc |-> "descending", result |-> None, stack |-> Advance(st)]
    ELSE IF HasLookupHit(h, m, name)
    THEN LET found == LookupHit(h, m, name, None) IN
         IF found # None THEN [pc |-> "returned", result |-> found, stack |-> <<>>]
         ELSE [pc |-> "descending", result |-> None, stack |-> Advance(st)]
    ELSE [pc |-> "descending", result |-> None, stack |-> Append(st, Frame(m, 1))]

\* line 287, result = get_field_value(value, field_name, None), for a value that is
\* a row: what the call does to the control state, the result and the stack
nested_call(h, st, name) ==
    LET m == h[st[Len(st)].node].vals[st[Len(st)].i].to IN
    IF Len(st) >= RecursionLimit
    THEN [pc |-> "raised", result |-> Raise("RecursionError"), stack |-> <<>>]
    ELSE IF HasLookupHit(h, m, name)
    THEN LET found == LookupHit(h, m, name, None) IN
         \* line 288-289: every frame returns what was found
         IF found # None THEN [pc |-> "returned", result |-> found, stack |-> <<>>]
         ELSE [pc |-> "descending", result |-> None, stack |-> Advance(st)]
    ELSE [pc |-> "descending", result |-> None, stack |-> Append(st, Frame(m, 1))]

InitDescent ==
    /\ pc = "start"
    /\ heap \in Heaps
    /\ stack = <<>>
    /\ input = Ref(Root)
    /\ data = None
    /\ field_name = F_output
    /\ default \in {None, PyStr(S_d)}
    /\ result = None
    /\ NoSession

\* get_field_value(row, "output", default) is called: lines 262-282
DescentCall ==
    /\ pc = "start"
    /\ IF HasLookupHit(heap, Root, field_name)
       THEN /\ result' = LookupHit(heap, Root, field_name, default)
            /\ pc' = "returned"
            /\ stack' = <<>>
       ELSE /\ stack' = <<Frame(Root, 1)>>
            /\ pc' = "descending"
            /\ result' = result
    /\ UNCHANGED <<heap, input, data, field_name, default, sessionVars>>

\* line 286 is false for the entry: the loop goes on
DescentSkip ==
    /\ pc = "descending"
    /\ Top.i <= Len(heap[Top.node].keys)
    /\ ~IsRef(heap[Top.node].vals[Top.i])
    /\ stack' = Advance(stack)
    /\ UNCHANGED <<pc, result, heap, input, data, field_name, default, sessionVars>>

\* lines 286-289: the entry is a row and get_field_value is called on it
DescentNested ==
    /\ pc = "descending"
    /\ Top.i <= Len(heap[Top.node].keys)
    /\ IsRef(heap[Top.node].vals[Top.i])
    /\ LET after == nested_call(heap, stack, field_name) IN
        /\ pc' = after.pc
        /\ result' = after.result
        /\ stack' = after.stack
    /\ UNCHANGED <<heap, input, data, field_name, default, sessionVars>>

\* line 291: the loop is over and the frame returns its default, which is None for
\* a nested call, whose caller then goes on with its loop
DescentExhausted ==
    /\ pc = "descending"
    /\ Top.i > Len(heap[Top.node].keys)
    /\ IF Len(stack) = 1
       THEN /\ result' = default
            /\ pc' = "returned"
            /\ stack' = <<>>
       ELSE /\ stack' = Advance(Pop(stack))
            /\ UNCHANGED <<pc, result>>
    /\ UNCHANGED <<heap, input, data, field_name, default, sessionVars>>

NextDescent == DescentCall \/ DescentSkip \/ DescentNested \/ DescentExhausted

SpecDescent == InitDescent /\ [][NextDescent]_vars

\* the interpreter runs the call to its end
SpecDescentFair == SpecDescent /\ WF_vars(NextDescent)

----------------------------------------------------------------------------
(* The Streamlit session, app.py 126-134, 408-414, 466-542 and 664-731.  The   *)
(* script runs from top to bottom once per user event; st.session_state lives  *)
(* from run to run.  One action is one run of the script with its event, taken *)
(* as a whole: the sidebar, the emergency tab, then the chat tab.  A run is    *)
(* not interrupted, and the display calls (st.write, st.json, ...) return.     *)

MaxChat == 2

K_lat == <<"l", "a", "t">>
K_lon == <<"l", "o", "n">>
K_shelter == <<"s", "h", "e", "l", "t", "e", "r">>
K_name == <<"n", "a", "m", "e">>
K_role == <<"r", "o", "l", "e">>
K_user == <<"u", "s", "e", "r">>
K_assistant == <<"a", "s", "s", "i", "s", "t", "a", "n", "t">>

\* the six type buttons, lines 476-483
EmergencyTypes ==
    {PyStr(<<"F", "l", "o", "o", "d">>),
     PyStr(<<"M", "e", "d", "i", "c", "a", "l", " ", "E", "m", "e", "r", "g", "e", "n", "c", "y">>),
     PyStr(<<"F", "i", "r", "e">>),
     PyStr(<<"N", "a", "t", "u", "r", "a", "l", " ", "D", "i", "s", "a", "s", "t", "e", "r">>),
     PyStr(<<"A", "c", "c", "i", "d", "e", "n", "t">>),
     PyStr(<<"B", "u", "i", "l", "d", "i", "n", "g", " ", "E", "m", "e", "r", "g", "e", "n", "c", "y">>)}

\* a float, by its digits
PyFloat(digits) == [k |-> "float", digits |-> digits]

\* the location written at lines 507-511
FixedLocation ==
    PyDict(<<K_lat, K_lon, K_shelter>>,
           <<PyFloat(<<"5", ".", "3", "5", "4", "0">>), PyFloat(<<"1", "0", "0", ".", "3", "0", "1", "5">>),
             PyDict(<<K_name>>, <<PyStr(<<"D", "e", "w", "a", "n", " ", "U", "t", "a", "m", "a">>)>>)>>)

\* what components.html returns at line 381: nothing, a handle that is not a dict,
\* or a dict with coordinates
ComponentValues ==
    {None, BareObj,
     PyDict(<<K_lat, K_lon>>, <<PyFloat(<<"5", ".", "3", "6">>), PyFloat(<<"1", "0", "0", ".", "3", "0">>)>>)}

\* the location written by get_live_location, lines 384-390
component_location(cv) ==
    PyDict(<<K_lat, K_lon, K_shelter>>,
           <<DictGet(cv, K_lat), DictGet(cv, K_lon), DictGet(cv, K_shelter)>>)

\* st.session_state.emergency_location after lines 507-534
location_after_alert(cv) ==
    IF Truthy(cv) /\ IsDict(cv) THEN component_location(cv) ELSE FixedLocation

\* the sidebar shows "GPS Connected", lines 412-414
gps_connected(loc) == Truthy(loc) /\ Truthy(DictGet(loc, K_lat))

\* the alert view is shown only in the run of the confirmation
alert_view_needs_submit(selected, submit, submitted) == selected # None /\ submit

\* lines 487 and 502: the alert view is shown
alert_view(selected, submit, submitted) == selected # None /\ (submit \/ submitted)

\* the upload is tried whenever a client exists
upload_due_every_run(client, done) == client

\* line 537: the upload is tried
upload_due(client, done) == client /\ ~done

\* the messages typed into the chat input, line 680
UserMessages == {PyStr(S_hi), PyStr(S_x)}

DefaultReply == PyStr(<<"I", "'", "m", " ", "s", "o", "r", "r", "y", ",", " ", "I", " ", "c", "o", "u", "l", "d", "n", "'", "t", " ", "g", "e", "n", "e", "r", "a", "t", "e", " ", "a", " ", "r", "e", "s", "p", "o", "n", "s", "e", ".">>)
ClientMissing == PyStr(<<"J", "a", "m", "A", "I", " ", "c", "l", "i", "e", "n", "t", " ", "n", "o", "t", " ", "a", "v", "a", "i", "l", "a", "b", "l", "e", ".", " ", " ", "P", "l", "e", "a", "s", "e", " ", "c", "o", "n", "f", "i", "g", "u", "r", "e", " ", "c", "r", "e", "d", "e", "n", "t", "i", "a", "l", "s", ".">>)

\* str(e) of the exceptions of the model, by their type
ExceptionText(exc) ==
    CASE exc = "RuntimeError" -> <<"F", "a", "i", "l", "e", "d", " ", "t", "o", " ", "a", "d", "d", " ", "t", "a", "b", "l", "e", " ", "r", "o", "w">>
      [] exc = "TypeError" -> <<"o", "b", "j", "e", "c", "t", " ", "i", "s", " ", "n", "o", "t", " ", "s", "u", "b", "s", "c", "r", "i", "p", "t", "a", "b", "l", "e">>
      [] OTHER -> <<"e", "r", "r", "o", "r">>

\* line 725, f"Error: {e}"
error_msg(exc) == PyStr(<<"E", "r", "r", "o", "r", ":", " ">> \o ExceptionText(exc))

\* what add_table_row does at line 697: it raises RuntimeError (lines 295, 311) or
\* returns the response of the table service
TableOutcomes ==
    {Raise("RuntimeError"),
     PyObj(<<K_rows>>,
           <<PyList(<<Obj1(K_columns, Dict1(F_output, Obj1(K_text, PyStr(S_evacuate))))>>)>>, TRUE),
     Dict1(F_output, Obj1(K_choices, PyInt(5))),
     None}

ChatEntry(role, content) == PyDict(<<K_role, K_content>>, <<PyStr(role), content>>)

\* the reply of lines 697-701, or the exception that leaves the try block
assistant_reply(outcome) ==
    IF IsRaise(outcome) THEN outcome
    ELSE LET parsed == parse_response_data(outcome) IN
         IF IsRaise(parsed) THEN parsed
         ELSE get_field_value(parsed, F_output, DefaultReply)

\* an exception leaves the try block and nothing is added to the history
assistant_entries_no_handler(client, outcome) ==
    IF ~client THEN <<ChatEntry(K_assistant, ClientMissing)>>
    ELSE LET reply == assistant_reply(outcome) IN
         IF IsRaise(reply) THEN <<>>
         ELSE <<ChatEntry(K_assistant, reply)>>

\* the entries added to the history by lines 695-729
assistant_entries(client, outcome) ==
    IF ~client THEN <<ChatEntry(K_assistant, ClientMissing)>>
    ELSE LET reply == assistant_reply(outcome) IN
         IF IsRaise(reply) THEN <<ChatEntry(K_assistant, error_msg(reply.exc))>>
         ELSE <<ChatEntry(K_assistant, reply)>>

\* no call of the parsing functions is in progress between two runs
NoCall ==
    /\ pc = "idle" /\ input = None /\ data = None
    /\ field_name = <<>> /\ default = None /\ result = None

\* what the latest run did
RunRecord(event, connected, shown, upload) ==
    [event |-> event, gps_connected |-> connected, alert_shown |-> shown, upload |-> upload]

\* the session after the first run of the script, with no event; lines 126-134
\* build the client from the configuration, which is the same in every run
InitSession ==
    /\ jamai_client \in BOOLEAN
    /\ selected_emergency = None
    /\ form_submitted = FALSE
    /\ emergency_location = None
    /\ upload_done = FALSE
    /\ chat_history = <<>>
    /\ last_run = RunRecord("load", FALSE, FALSE, "none")
    /\ uploads = 0
    /\ NoCall
    /\ NoDescent

\* the sidebar and the emergency tab of one run, lines 408-414 and 466-542:
\* selected is the type after the type buttons, submit the CONFIRM button, cv the
\* value of the map component, ok whether add_table_row returns
EmergencyTab(event, selected, submit, cv, ok) ==
    LET shown == alert_view(selected, submit, form_submitted)
        tried == shown /\ upload_due(jamai_client, upload_done)
    IN  /\ selected_emergency' = selected
        /\ form_submitted' = (form_submitted \/ shown)
        /\ emergency_location' = IF shown THEN location_after_alert(cv) ELSE emergency_location
        /\ upload_done' = (upload_done \/ (tried /\ ok))
        /\ uploads' = IF tried /\ ok THEN uploads + 1 ELSE uploads
        /\ last_run' = RunRecord(event, gps_connected(emergency_location), shown,
                                 IF ~tried THEN "none" ELSE IF ok THEN "ok" ELSE "failed")

\* a type button is pressed, lines 476-483
SelectType ==
    /\ \E type \in EmergencyTypes, cv \in ComponentValues, ok \in BOOLEAN :
        EmergencyTab("select", type, FALSE, cv, ok)
    /\ UNCHANGED <<jamai_client, chat_history, callVars, descentVars>>

\* Change Type is pressed, lines 491-493: the run ends at st.rerun() and the script
\* runs again with no type selected
ChangeType ==
    /\ selected_emergency # None
    /\ selected_emergency' = None
    /\ last_run' = RunRecord("change", gps_connected(emergency_location), FALSE, "none")
    /\ UNCHANGED <<form_submitted, emergency_location, upload_done, uploads>>
    /\ UNCHANGED <<jamai_client, chat_history, callVars, descentVars>>

\* CONFIRM & REQUEST HELP is pressed, lines 497-542
Confirm ==
    /\ selected_emergency # None
    /\ \E cv \in ComponentValues, ok \in BOOLEAN :
        EmergencyTab("confirm", selected_emergency, TRUE, cv, ok)
    /\ UNCHANGED <<jamai_client, chat_history, callVars, descentVars>>

\* a message is sent in the chat, lines 680-729; the emergency tab runs first
ChatSubmit ==
    /\ Len(chat_history) < 2 * MaxChat
    /\ \E cv \in ComponentValues, ok \in BOOLEAN :
        EmergencyTab("chat", selected_emergency, FALSE, cv, ok)
    /\ \E user_message \in UserMessages, outcome \in TableOutcomes :
        chat_history' = Append(chat_history, ChatEntry(K_user, user_message))
                            \o assistant_entries(jamai_client, outcome)
    /\ UNCHANGED <<jamai_client, callVars, descentVars>>

\* a run for an event of another widget
OtherRun ==
    /\ \E cv \in ComponentValues, ok \in BOOLEAN :
        EmergencyTab("other", selected_emergency, FALSE, cv, ok)
    /\ UNCHANGED <<jamai_client, chat_history, callVars, descentVars>>

NextSession == SelectType \/ ChangeType \/ Confirm \/ ChatSubmit \/ OtherRun

SpecSession == InitSession /\ [][NextSession]_vars

----------------------------------------------------------------------------
(* Properties *)

\* the row the last get_field_value call was given
RowRead == IF pc = "read" THEN data ELSE input
FieldRead == pc \in {"read", "field"}

\* a value of none of the shapes parse_response_data recognises
Unrecognized(v) ==
    /\ ~IsList(v) /\ ~IsDict(v)
    /\ ~HasAttr(v, K_rows) /\ ~HasAttr(v, K_columns) /\ ~HasBag(v)

\* C1: parse_response_data returns a mapping for every input and never fails; the
\* mapping is empty for None, the empty list, the empty dict and every value of no
\* recognised shape.
NormalizeTotal ==
    pc = "parsed" =>
        /\ IsDict(data)
        /\ (input \in {None, PyList(<<>>), EmptyDict} \/ Unrecognized(input))
              => data = EmptyDict

NormalizeTotalWitness ==
    /\ pc = "parsed"
    /\ input = SlotObj
    /\ data = EmptyDict

\* the response {"rows": [{"columns": columns}]}
IsColumnRows(v) ==
    /\ IsDict(v) /\ v.keys = <<K_rows>>
    /\ IsList(v.vals[1]) /\ Len(v.vals[1].items) = 1
    /\ IsDict(v.vals[1].items[1]) /\ v.vals[1].items[1].keys = <<K_columns>>
    /\ IsDict(v.vals[1].items[1].vals[1])
    /\ \A w \in Range(v.vals[1].items[1].vals[1].vals) :
          IsDict(w) /\ w.keys = <<K_text>> /\ IsStr(w.vals[1])
ColumnsOf(v) == v.vals[1].items[1].vals[1]

\* C2: a response {"rows": [{"columns": {c: {"text": t}, ...}}]} is parsed to the flat
\* mapping {c: t, ...}, and get_field_value of that mapping and c is t.
ColumnRowsFlattened ==
    IsColumnRows(input) =>
        /\ pc \in {"parsed", "read"} =>
              data = PyDict(ColumnsOf(input).keys,
                            [i \in 1..Len(ColumnsOf(input).keys) |->
                                ColumnsOf(input).vals[i].vals[1]])
        /\ (pc = "read" /\ HasKey(ColumnsOf(input), field_name)) =>
              result = GetKey(ColumnsOf(input), field_name).vals[1]

\* the conditions of lines 185-191, one per key
RowsUsable(m) ==
    HasKey(m, K_rows) /\ IsList(GetKey(m, K_rows)) /\ GetKey(m, K_rows).items # <<>>
MappingAt(m, key) == IsDict(m) /\ HasKey(m, key) /\ IsDict(GetKey(m, key))

\* C3: for a dict response the keys are tried in the fixed order "row" (recurse),
\* "rows" (a non-empty list: recurse into its first element), "values", "data",
\* "columns" (a dict: returned as it is), and otherwise the dict itself is returned;
\* with both "row" and "rows" present the result is the one of "row".
DictPriority ==
    (pc = "parsed" /\ IsDict(input)) =>
        /\ HasKey(input, K_row) => data = parse_response_data(GetKey(input, K_row))
        /\ (~HasKey(input, K_row) /\ RowsUsable(input))
              => data = parse_response_data(GetKey(input, K_rows).items[1])
        /\ (~HasKey(input, K_row) /\ ~RowsUsable(input) /\ MappingAt(input, K_values))
              => data = GetKey(input, K_values)
        /\ (/\ ~HasKey(input, K_row) /\ ~RowsUsable(input)
            /\ ~MappingAt(input, K_values) /\ MappingAt(input, K_data))
              => data = GetKey(input, K_data)
        /\ (/\ ~HasKey(input, K_row) /\ ~RowsUsable(input)
            /\ ~MappingAt(input, K_values) /\ ~MappingAt(input, K_data)
            /\ MappingAt(input, K_columns))
              => data = GetKey(input, K_columns)
        /\ (/\ ~HasKey(input, K_row) /\ ~RowsUsable(input)
            /\ ~MappingAt(input, K_values) /\ ~MappingAt(input, K_data)
            /\ ~MappingAt(input, K_columns))
              => data = input

DictPriorityWitness ==
    /\ pc = "parsed"
    /\ IsDict(input)
    /\ HasKey(input, K_row) /\ RowsUsable(input) /\ MappingAt(input, K_values)
    /\ data = parse_response_data(GetKey(input, K_row))
    /\ data # parse_response_data(GetKey(input, K_rows).items[1])
    /\ data # GetKey(input, K_values)

\* the response {"row": m} with m a mapping
IsRowWrapper(v) == IsDict(v) /\ v.keys = <<K_row>> /\ IsDict(v.vals[1])

\* a mapping none of whose keys parse_response_data acts on
PlainMapping(m) ==
    /\ ~HasKey(m, K_row) /\ ~RowsUsable(m)
    /\ ~MappingAt(m, K_values) /\ ~MappingAt(m, K_data) /\ ~MappingAt(m, K_columns)

\* C4 as stated: {"row": m} with m a mapping is parsed to m itself, whatever keys m has.
RowReturnedUnchanged ==
    (pc = "parsed" /\ IsRowWrapper(input)) => data = input.vals[1]

\* C4 amended: {"row": m} with m a mapping is parsed to what m is parsed to, which is
\* m itself when m has no "row" key, no "rows" key holding a non-empty list and no
\* "values", "data" or "columns" key holding a mapping.
RowParsedRecursively ==
    (pc = "parsed" /\ IsRowWrapper(input)) =>
        /\ data = parse_response_data(input.vals[1])
        /\ PlainMapping(input.vals[1]) => data = input.vals[1]

RowParsedRecursivelyWitness ==
    /\ pc = "parsed"
    /\ IsRowWrapper(input)
    /\ PlainMapping(input.vals[1])
    /\ HasKey(input.vals[1], K_values) /\ HasKey(input.vals[1], K_rows)
    /\ data = input.vals[1]

\* the name variants of the fuzzy lookup, compared case-insensitively
NameVariantMatch(key, name) ==
    \/ lower(key) = lower(name)
    \/ lower(key) = lower(replace(name, "_", " "))
    \/ lower(key) = lower(replace(name, " ", "_"))
VariantHits(row, name) == {j \in 1..Len(row.keys) : NameVariantMatch(row.keys[j], name)}
Least(S) == CHOOSE j \in S : \A h \in S : j <= h

\* the name is a key, or a variant of a key, of the mapping or of a mapping nested in it
RECURSIVE FoundSomewhere(_, _)
FoundSomewhere(row, name) ==
    /\ IsDict(row)
    /\ \/ HasKey(row, name)
       \/ VariantHits(row, name) # {}
       \/ \E i \in 1..Len(row.vals) : FoundSomewhere(row.vals[i], name)

\* C5: get_field_value never raises, and returns default when the field is found
\* neither directly, nor by name variant, nor in any nested mapping.
GetFieldNeverRaises ==
    FieldRead =>
        /\ ~IsRaise(result)
        /\ ~FoundSomewhere(RowRead, field_name) => result = default

\* C6: when field_name is a key of the row, the result is the extracted content of
\* row[field_name] if that is non-empty and default otherwise, also when a nested
\* mapping holds a non-empty value for the same name.
DirectLookupDecides ==
    (FieldRead /\ IsDict(RowRead) /\ HasKey(RowRead, field_name)) =>
        LET extracted == extract_chat_completion_content(GetKey(RowRead, field_name)) IN
        ~IsRaise(extracted) =>
            result = IF Truthy(extracted) THEN extracted ELSE default

DirectLookupDecidesWitness ==
    /\ pc = "field"
    /\ input = PyDict(<<F_output, F_outer>>, <<PyStr(<<>>), Dict1(F_output, PyStr(S_hi))>>)
    /\ field_name = F_output
    /\ default = PyStr(S_d)
    /\ result = PyStr(S_d)

\* C7: when field_name is not a key of the row, a key matches if its lowercase equals
\* the lowercase of field_name, of field_name with "_" replaced by " ", or of
\* field_name with " " replaced by "_"; the result is then the extracted content of
\* the first matching key if non-empty and default otherwise.
FuzzyLookupDecides ==
    (/\ FieldRead /\ IsDict(RowRead) /\ ~HasKey(RowRead, field_name)
     /\ VariantHits(RowRead, field_name) # {}) =>
        LET extracted == extract_chat_completion_content(
                            RowRead.vals[Least(VariantHits(RowRead, field_name))]) IN
        ~IsRaise(extracted) =>
            result = IF Truthy(extracted) THEN extracted ELSE default

FuzzyLookupDecidesWitness ==
    /\ pc = "field"
    /\ input = Dict1(F_Summary, PyStr(S_x))
    /\ field_name = F_summary
    /\ default = PyStr(S_d)
    /\ result = PyStr(S_x)

\* the nested mappings of the row whose search for name does not come back empty
NestedHits(row, name) ==
    {i \in 1..Len(row.vals) :
        IsDict(row.vals[i]) /\ get_field_value(row.vals[i], name, None) # None}

\* C8: when no key of the row matches field_name directly or by variant, the mapping
\* valued entries are searched in order, each to any depth, and the result is that of
\* the first one whose search is not None; it is default when there is none.
RecursiveDescent ==
    (/\ FieldRead /\ IsDict(RowRead) /\ ~HasKey(RowRead, field_name)
     /\ VariantHits(RowRead, field_name) = {}) =>
        IF NestedHits(RowRead, field_name) = {}
        THEN result = default
        ELSE result = get_field_value(
                          RowRead.vals[Least(NestedHits(RowRead, field_name))],
                          field_name, None)

RecursiveDescentWitness ==
    /\ pc = "field"
    /\ input = PyDict(<<F_Summary, F_outer>>,
                      <<Dict1(F_output, PyStr(<<>>)), Dict1(F_inner, Dict1(F_output, GoodChat))>>)
    /\ field_name = F_output
    /\ default = PyStr(S_d)
    /\ result = PyStr(S_hi)

\* C9: parse_columns_data returns a mapping with exactly the keys of columns, and
\* every value of it is a string.
ColumnsAreStrings ==
    (pc = "columns" /\ IsDict(input)) =>
        /\ IsDict(result)
        /\ result.keys = input.keys
        /\ \A i \in 1..Len(result.vals) : IsStr(result.vals[i])

\* the dict {"choices": [{"message": {"content": c}}, ...]}
IsChatDict(v) ==
    /\ IsDict(v) /\ HasKey(v, K_choices)
    /\ IsList(GetKey(v, K_choices)) /\ GetKey(v, K_choices).items # <<>>
    /\ MappingAt(GetKey(v, K_choices).items[1], K_message)
    /\ HasKey(GetKey(GetKey(v, K_choices).items[1], K_message), K_content)
ChatDictContent(v) ==
    GetKey(GetKey(GetKey(v, K_choices).items[1], K_message), K_content)

\* C10: extract_chat_completion_content always returns a string or None; for a chat
\* completion it returns choices[0].message.content, and a non-empty string is
\* returned unchanged.
ContentIsStringOrNone ==
    pc = "content" =>
        /\ IsStr(result) \/ result = None
        /\ IsChatDict(input) => result = ChatDictContent(input)
        /\ (IsStr(input) /\ Truthy(input)) => result = input

\* a value that exposes choices, as an attribute or as a key
ChatShaped(v) == (IsObj(v) \/ IsDict(v)) /\ HasKey(v, K_choices)

\* choices[0].message.content can be read, through attributes or through keys
ContentReachable(v) ==
    /\ ChatShaped(v)
    /\ IsList(GetKey(v, K_choices)) /\ GetKey(v, K_choices).items # <<>>
    /\ LET first == GetKey(v, K_choices).items[1] IN
       \/ /\ IsObj(first) /\ HasKey(first, K_message)
          /\ IsObj(GetKey(first, K_message))
          /\ HasKey(GetKey(first, K_message), K_content)
       \/ /\ IsDict(v) /\ IsDict(first) /\ HasKey(first, K_message)
          /\ IsDict(GetKey(first, K_message))
          /\ HasKey(GetKey(first, K_message), K_content)

\* C11: when a step of the chat extraction is structurally invalid (choices empty, not
\* indexable or of the wrong type, no message, no content) no error propagates, and
\* a value whose choices is the empty list yields its string rendering.
ChatFailsSoft ==
    (pc = "content" /\ ChatShaped(input) /\ ~ContentReachable(input)) =>
        /\ ~IsRaise(result)
        /\ GetKey(input, K_choices) = PyList(<<>>) => result = str(input)

\* C12: for every non-empty list s, parse_response_data(s) is
\* parse_response_data(s[0]), whatever the first element is.
ListFirstElement ==
    (pc = "parsed" /\ IsList(input) /\ input.items # <<>>) =>
        data = parse_response_data(input.items[1])

\* the rows attribute holds a non-empty list
RowsAttrUsable(v) ==
    HasAttr(v, K_rows) /\ IsList(GetKey(v, K_rows)) /\ GetKey(v, K_rows).items # <<>>

\* C13: for a response that is neither a mapping nor a list: a rows attribute holding
\* a non-empty list gives the column values of its first element when that has a
\* columns attribute, else the parse of the first element; otherwise a columns
\* attribute gives its column values; otherwise the attribute bag is parsed as a
\* mapping; otherwise the result is the empty mapping.
ObjectOrder ==
    (pc = "parsed" /\ ~IsDict(input) /\ ~IsList(input) /\ input # None) =>
        /\ (RowsAttrUsable(input) /\ HasAttr(GetKey(input, K_rows).items[1], K_columns))
              => data = parse_columns_data(
                            GetKey(GetKey(input, K_rows).items[1], K_columns))
        /\ (RowsAttrUsable(input) /\ ~HasAttr(GetKey(input, K_rows).items[1], K_columns))
              => data = parse_response_data(GetKey(input, K_rows).items[1])
        /\ (~RowsAttrUsable(input) /\ HasAttr(input, K_columns))
              => data = parse_columns_data(GetKey(input, K_columns))
        /\ (~RowsAttrUsable(input) /\ ~HasAttr(input, K_columns) /\ HasBag(input))
              => data = parse_response_data(PyDict(input.keys, input.vals))
        /\ (~RowsAttrUsable(input) /\ ~HasAttr(input, K_columns) /\ ~HasBag(input))
              => data = EmptyDict

ObjectOrderWitness ==
    /\ pc = "parsed"
    /\ IsObj(input)
    /\ RowsAttrUsable(input) /\ HasAttr(input, K_columns)
    /\ ~HasAttr(GetKey(input, K_rows).items[1], K_columns)
    /\ data = parse_response_data(GetKey(input, K_rows).items[1])
    /\ data # parse_columns_data(GetKey(input, K_columns))

\* the rows nested directly in the row at node n, and those nested at any depth
NestedIn(h, n) == {h[n].vals[i].to : i \in {j \in 1..Len(h[n].vals) : IsRef(h[n].vals[j])}}
RECURSIVE NestedWithin(_, _, _)
NestedWithin(h, S, steps) ==
    IF steps = 0 THEN S
    ELSE NestedWithin(h, S \cup UNION {NestedIn(h, m) : m \in S}, steps - 1)
ReachableFrom(h, n) == NestedWithin(h, NestedIn(h, n), Cardinality(Nodes))

\* the row reaches itself through its nested rows
CyclicRow == Root \in ReachableFrom(heap, Root)
\* no row of the structure reaches itself
AcyclicRow == \A m \in {Root} \cup ReachableFrom(heap, Root) : m \notin ReachableFrom(heap, m)
\* neither the row nor a row nested in it has a key that is field_name or a variant
NoMatchReachable ==
    \A m \in {Root} \cup ReachableFrom(heap, Root) :
        ~HasKey(heap[m], field_name) /\ VariantHits(heap[m], field_name) = {}

\* the acyclic row as a value
RECURSIVE Unfold(_, _)
Unfold(h, n) ==
    PyDict(h[n].keys,
           [i \in 1..Len(h[n].vals) |->
               IF IsRef(h[n].vals[i]) THEN Unfold(h, h[n].vals[i].to) ELSE h[n].vals[i]])

IsPrefix(a, b) == Len(a) <= Len(b) /\ SubSeq(b, 1, Len(a)) = a

\* the entries are user, assistant, user, assistant, ...
ChatRoles(h) ==
    \A i \in 1..Len(h) :
        /\ IsDict(h[i]) /\ h[i].keys = <<K_role, K_content>>
        /\ GetKey(h[i], K_role) = PyStr(IF i % 2 = 1 THEN K_user ELSE K_assistant)

\* C15: the chat history is append-only and alternates: its length is even, entries
\* go user, assistant from the first on, a submission adds the user message and
\* exactly one assistant entry whatever the outcome, and earlier entries stay.
ChatAlternates ==
    /\ [](Len(chat_history) % 2 = 0 /\ ChatRoles(chat_history))
    /\ [][/\ IsPrefix(chat_history, chat_history')
          /\ Len(chat_history') \in {Len(chat_history), Len(chat_history) + 2}
          /\ last_run'.event = "chat" =>
                /\ Len(chat_history') = Len(chat_history) + 2
                /\ \E m \in UserMessages :
                     chat_history'[Len(chat_history) + 1] = ChatEntry(K_user, m)]_vars

ChatAlternatesWitness ==
    /\ jamai_client /\ Len(chat_history) = 4
    /\ \E i, j \in {2, 4} :
        /\ GetKey(chat_history[i], K_content) = error_msg("RuntimeError")
        /\ GetKey(chat_history[j], K_content) = PyStr(S_evacuate)

\* C16: the alert row is inserted at most once in a session: upload_done is set only
\* in a run whose insertion returned, is never cleared, and a failed insertion
\* leaves it unset, so the next run showing the alert view tries again.
UploadOnce ==
    /\ [](/\ uploads <= 1
          /\ upload_done <=> uploads = 1
          /\ ~jamai_client => uploads = 0
          /\ (last_run.alert_shown /\ jamai_client /\ ~upload_done)
                => last_run.upload = "failed")
    /\ [][/\ upload_done => upload_done'
          /\ (~upload_done /\ upload_done') => last_run'.upload = "ok"
          /\ last_run'.upload = "ok" => uploads' = uploads + 1
          /\ last_run'.upload = "failed" => (~upload_done' /\ uploads' = uploads)
          /\ (last_run'.alert_shown /\ jamai_client /\ ~upload_done)
                => last_run'.upload \in {"ok", "failed"}]_vars

UploadOnceWitness ==
    /\ upload_done /\ uploads = 1
    /\ last_run.event = "select" /\ last_run.alert_shown /\ last_run.upload = "none"

\* C17: form_submitted is a latch and emergency_location is written only behind it:
\* once true it stays true, Change Type resets only the selected type, every later
\* run with a selected type shows the alert view and writes the location with no
\* new confirmation, and a location that is set implies form_submitted.
FormLatch ==
    /\ [](/\ emergency_location # None => form_submitted
          /\ last_run.gps_connected => form_submitted
          /\ last_run.alert_shown => form_submitted)
    /\ [][/\ form_submitted => form_submitted'
          /\ last_run'.event = "change" =>
                /\ selected_emergency' = None
                /\ UNCHANGED <<form_submitted, emergency_location, upload_done>>
          /\ (form_submitted /\ selected_emergency' # None) =>
                /\ last_run'.alert_shown
                /\ emergency_location' # None]_vars

FormLatchWitness ==
    /\ last_run.event = "select" /\ last_run.alert_shown
    /\ form_submitted /\ emergency_location # None

====
